---- MODULE Spec2Model ----
(***************************************************************************)
(* update_hotel_extraction.py: read a CSV of hotel reviews, derive the     *)
(* businesses, normalise the reviews, compute the statistics, assemble the *)
(* extraction document and overwrite one JSON file.                        *)
(*                                                                         *)
(* A Python str is a sequence of one-character strings; '' is <<>>.        *)
(* A float NaN (an empty CSV cell) in a text column is the value NaN.      *)
(* One-decimal floats (avgRating, totalScore, maxRating) are integers in   *)
(* tenths; avg_rating before rounding is an exact fraction [num, den].     *)
(***************************************************************************)
EXTENDS Integers, Sequences, FiniteSets, TLC

\* Bounds of the model.
MaxRows == 3
MaxRuns == 2

VARIABLES
    pc,               \* the statement the script is at
    csv,              \* the input CSV on disk
    df,               \* the loaded table
    bi,               \* position of the business loop in df['title'].unique()
    businesses,
    business_data,
    ri,               \* position of the review loop in df
    reviews,
    avg_rating,
    extraction_data,
    file,             \* the output file on disk
    prior,            \* the output file as the run found it
    stdout,
    fault,            \* the uncaught exception that ended the run, if any
    run,              \* which invocation of the script this is
    written           \* what each finished invocation left in the file

vars ==
    <<pc, csv, df, bi, businesses, business_data, ri, reviews, avg_rating,
      extraction_data, file, prior, stdout, fault, run, written>>

---------------------------------------------------------------------------
(* Cell values as pandas hands them to the script.                         *)

NaN == <<"NaN">>

notna(x) == x # NaN

IsSpace(c) == c \in {" ", "\t"}

RECURSIVE lstrip(_)
lstrip(s) ==
    IF s = <<>> THEN s
    ELSE IF IsSpace(Head(s)) THEN lstrip(Tail(s)) ELSE s

RECURSIVE rstrip(_)
rstrip(s) ==
    IF s = <<>> THEN s
    ELSE IF IsSpace(s[Len(s)]) THEN rstrip(SubSeq(s, 1, Len(s) - 1)) ELSE s

strip(s) == rstrip(lstrip(s))

\* A cell of the stars column: a float NaN, a number, or (in an object
\* column) the text of the cell.
NaNStars == [kind |-> "nan", num |-> 0, str |-> <<>>]

NumStars(v) == [kind |-> "num", num |-> v, str |-> <<>>]

StrStars(s) == [kind |-> "str", num |-> 0, str |-> s]

Digits == <<"0", "1", "2", "3", "4", "5", "6", "7", "8", "9">>

IsDigit(c) == \E d \in 1..Len(Digits) : Digits[d] = c

DigitVal(c) == (CHOOSE d \in 1..Len(Digits) : Digits[d] = c) - 1

RECURSIVE DigitsVal(_)
DigitsVal(ds) ==
    IF ds = <<>> THEN 0
    ELSE 10 * DigitsVal(SubSeq(ds, 1, Len(ds) - 1)) + DigitVal(ds[Len(ds)])

RECURSIVE DecStr(_)
DecStr(n) ==
    IF n < 10 THEN <<Digits[n + 1]>>
    ELSE DecStr(n \div 10) \o <<Digits[(n % 10) + 1]>>

\* str(x) of a stars cell: the text itself, or the repr of the float.
str(cell) ==
    IF cell.kind = "str" THEN cell.str
    ELSE IF cell.kind = "nan" THEN <<"n", "a", "n">>
    ELSE (IF cell.num < 0 THEN <<"-">> \o DecStr(-cell.num) ELSE DecStr(cell.num))
         \o <<".", "0">>

\* int(x): a number converts; a text is stripped, then an optional sign
\* and at least one digit, anything else raises ValueError (ok = FALSE).
int(cell) ==
    IF cell.kind = "num" THEN [ok |-> TRUE, val |-> cell.num]
    ELSE LET t == strip(cell.str)
             signed == t # <<>> /\ Head(t) \in {"-", "+"}
             ds == IF signed THEN Tail(t) ELSE t
             good == ds # <<>> /\ \A i \in 1..Len(ds) : IsDigit(ds[i])
         IN  IF ~good THEN [ok |-> FALSE, val |-> 0]
             ELSE [ok |-> TRUE,
                   val |-> IF signed /\ Head(t) = "-" THEN -DigitsVal(ds)
                           ELSE DigitsVal(ds)]

---------------------------------------------------------------------------
(* The transformation, statement by statement.                             *)

\* Faulty variant: the strip() test is forgotten.
ValidTitle_notna_only(t) == notna(t)

\* pd.notna(t) and t.strip()
ValidTitle(t) == notna(t) /\ strip(t) # <<>>

\* x if pd.notna(x) else ''
OrEmpty(x) == IF notna(x) THEN x ELSE <<>>

\* Faulty variant: no deduplication, every value of the column is iterated.
unique_keeps_duplicates(col) == col

\* Faulty variant: the distinct values in order of last appearance.
RECURSIVE unique_by_last(_)
unique_by_last(col) ==
    IF col = <<>> THEN <<>>
    ELSE LET rest == unique_by_last(Tail(col))
         IN  IF \E i \in 1..Len(rest) : rest[i] = Head(col) THEN rest
             ELSE <<Head(col)>> \o rest

\* Series.unique(): the distinct values in order of first appearance.
RECURSIVE unique(_)
unique(col) ==
    IF col = <<>> THEN <<>>
    ELSE LET init == unique(SubSeq(col, 1, Len(col) - 1))
             last == col[Len(col)]
         IN  IF \E i \in 1..Len(init) : init[i] = last THEN init
             ELSE Append(init, last)

TitleColumn(rows) == [i \in 1..Len(rows) |-> rows[i].title]

\* Faulty variant: the matching rows latest first, so iloc[0] is the last one.
RowsTitled_latest_first(rows, t) ==
    LET m == SelectSeq(rows, LAMBDA r : r.title = t)
    IN  [i \in 1..Len(m) |-> m[Len(m) + 1 - i]]

\* df[df['title'] == business_title]
RowsTitled(rows, t) == SelectSeq(rows, LAMBDA r : r.title = t)

Business(business_title, first_review) ==
    [title |-> business_title,
     address |-> OrEmpty(first_review.address),
     totalScore |-> 35,
     reviewsCount |-> 50,
     placeId |-> OrEmpty(first_review.placeId),
     url |-> OrEmpty(first_review.url)]

\* Faulty variant: a missing rating defaults to 0.
StarsOf_default_zero(cell) ==
    IF cell.kind # "nan" /\ strip(str(cell)) # <<>> THEN int(cell)
    ELSE [ok |-> TRUE, val |-> 0]

\* int(row['stars']) if pd.notna(row['stars']) and str(row['stars']).strip() else 3
StarsOf(cell) ==
    IF cell.kind # "nan" /\ strip(str(cell)) # <<>> THEN int(cell)
    ELSE [ok |-> TRUE, val |-> 3]

Review(row, stars) ==
    [title |-> row.title,
     address |-> OrEmpty(row.address),
     name |-> OrEmpty(row.name),
     stars |-> stars,
     publishedAtDate |-> OrEmpty(row.publishedAtDate),
     text |-> OrEmpty(row.text),
     reviewerNumberOfReviews |-> 25,
     isLocalGuide |-> FALSE,
     originalLanguage |-> "nl",
     reviewUrl |-> OrEmpty(row.reviewUrl),
     reviewerUrl |-> <<>>,
     url |-> OrEmpty(row.url)]

\* reviews.append(review)
\* Faulty variant first: a review equal to one already in the list is dropped.
reviews_append_if_new(revs, review) ==
    IF \E i \in 1..Len(revs) : revs[i] = review THEN revs
    ELSE Append(revs, review)

reviews_append(revs, review) == Append(revs, review)

\* Faulty variant: the filter keeps zero ratings.
ValidRatings_nonnegative(revs) ==
    LET pos == SelectSeq(revs, LAMBDA r : r.stars >= 0)
    IN  [i \in 1..Len(pos) |-> pos[i].stars]

\* [r['stars'] for r in reviews if r['stars'] > 0]
ValidRatings(revs) ==
    LET pos == SelectSeq(revs, LAMBDA r : r.stars > 0)
    IN  [i \in 1..Len(pos) |-> pos[i].stars]

RECURSIVE sum(_)
sum(xs) == IF xs = <<>> THEN 0 ELSE Head(xs) + sum(Tail(xs))

\* sum(valid_ratings) / len(valid_ratings) if valid_ratings else 3.0
AvgRating(revs) ==
    LET valid_ratings == ValidRatings(revs)
    IN  IF valid_ratings # <<>>
        THEN [num |-> sum(valid_ratings), den |-> Len(valid_ratings)]
        ELSE [num |-> 3, den |-> 1]

\* round(x, 1) of a positive float, in tenths. Python rounds the double
\* correctly to the nearest tenth, a tie to the even one; a tie num/den
\* with den < 20 is a multiple of 1/4, which a double holds exactly.
round1(x) ==
    LET q == (10 * x.num) \div x.den
        r == (10 * x.num) % x.den
    IN  IF 2 * r < x.den THEN q
        ELSE IF 2 * r > x.den THEN q + 1
        ELSE IF q % 2 = 0 THEN q ELSE q + 1

existing_hotel_id == "extraction_1758391644659_ub9h7wl69"

\* Faulty variant: the timestamp is taken from the clock of the run.
Timestamp_now == IF run = 1 THEN "2025-09-20T18:07:24.659Z" ELSE "now"

Timestamp == "2025-09-20T18:07:24.659Z"

ExtractionData(bs, revs, avg) ==
    [id |-> existing_hotel_id,
     timestamp |-> Timestamp,
     searchCriteria |->
        [category |-> "hotel", location |-> "Netherlands", maxRating |-> 46,
         maxStars |-> 3, dayLimit |-> 14, businessLimit |-> Len(bs),
         minReviews |-> 10, minTextLength |-> 20, language |-> "nl",
         countryCode |-> "nl"],
     results |->
        [businesses |-> bs, reviews |-> revs,
         extractionDate |-> "2025-09-20T18:07:24.659Z"],
     statistics |->
        [businessesFound |-> Len(bs), reviewsFound |-> Len(revs),
         avgRating |-> round1(avg), extractionTime |-> 305660]]

\* json.dump writes the document as a run of chunks, in key order.
Serialize(doc) ==
    << [key |-> "id", value |-> doc.id],
       [key |-> "timestamp", value |-> doc.timestamp],
       [key |-> "searchCriteria", value |-> doc.searchCriteria],
       [key |-> "results", value |-> doc.results],
       [key |-> "statistics", value |-> doc.statistics] >>

Line(label, n, s) == [label |-> label, n |-> n, s |-> s]

\* The print statements after the write.
Summary(bs, revs, avg) ==
    << Line("Updated hotel extraction", 0, <<>>),
       Line("Businesses", Len(bs), <<>>),
       Line("Reviews", Len(revs), <<>>),
       Line("Avg Rating", round1(avg), <<>>),
       Line("Updated file", 0, <<>>),
       Line("Hotels included", 0, <<>>) >>
    \o [i \in 1..Len(bs) |-> Line("hotel", i, bs[i].title)]

---------------------------------------------------------------------------
(* Inputs: the CSV on disk and the output file left by an earlier run.     *)

Present ==
    [address |-> <<"a">>, name |-> <<"n">>, publishedAtDate |-> <<"d">>,
     text |-> <<"t">>, reviewUrl |-> <<"r">>, url |-> <<"u">>,
     placeId |-> <<"p">>]

Absent ==
    [address |-> NaN, name |-> NaN, publishedAtDate |-> NaN, text |-> NaN,
     reviewUrl |-> NaN, url |-> NaN, placeId |-> NaN]

Row(title, stars, rest) ==
    [title |-> title, address |-> rest.address, name |-> rest.name,
     stars |-> stars, publishedAtDate |-> rest.publishedAtDate,
     text |-> rest.text, reviewUrl |-> rest.reviewUrl, url |-> rest.url,
     placeId |-> rest.placeId]

Titles == {NaN, <<" ">>, <<"A">>, <<" ", "A">>, <<"B">>}

StarsCells ==
    {NaNStars, NumStars(0), StrStars(<<" ">>), StrStars(<<"4", " ">>),
     StrStars(<<"x">>)}

Rows ==
    {Row(t, NumStars(5), rest) : t \in Titles, rest \in {Present, Absent}}
    \cup {Row(<<"A">>, s, Present) : s \in StarsCells}
    \cup {Row(<<" ">>, StrStars(<<"x">>), Present)}

\* The rows of the runs that are repeated on the same CSV.
RerunRows ==
    {Row(<<"A">>, NumStars(5), Present), Row(<<"A">>, NaNStars, Absent),
     Row(<<" ">>, StrStars(<<"x">>), Present),
     Row(<<"B">>, StrStars(<<"4", " ">>), Present),
     Row(<<"A">>, StrStars(<<"x">>), Present)}

Tables(R) == UNION {[1..n -> R] : n \in 0..MaxRows}

NoFile == [exists |-> FALSE, chunks |-> <<>>]

\* The file of the earlier extraction that the run replaces.
StaleFile ==
    [exists |-> TRUE,
     chunks |-> Serialize(
        [id |-> existing_hotel_id,
         timestamp |-> "2025-09-20T18:07:24.659Z",
         searchCriteria |-> [category |-> "hotel", businessLimit |-> 50],
         results |-> [businesses |-> <<>>, reviews |-> <<>>,
                      extractionDate |-> "2025-09-20T18:07:24.659Z"],
         statistics |-> [businessesFound |-> 0, reviewsFound |-> 0,
                         avgRating |-> 46, extractionTime |-> 305660]])]

CsvFiles(R) ==
    {[exists |-> FALSE, rows |-> <<>>]}
    \cup {[exists |-> TRUE, rows |-> t] : t \in Tables(R)}

NoDocument == [id |-> "none"]

---------------------------------------------------------------------------

locals ==
    <<df, bi, businesses, business_data, ri, reviews, avg_rating,
      extraction_data>>

Fresh ==
    /\ pc = "read"
    /\ df = <<>>
    /\ bi = 1
    /\ businesses = <<>>
    /\ business_data = <<>>
    /\ ri = 1
    /\ reviews = <<>>
    /\ avg_rating = [num |-> 0, den |-> 1]
    /\ extraction_data = NoDocument
    /\ stdout = <<>>
    /\ fault = "none"

InitOver(R) ==
    /\ Fresh
    /\ csv \in CsvFiles(R)
    /\ file \in {NoFile, StaleFile}
    /\ prior = file
    /\ run = 1
    /\ written = <<>>

Init == InitOver(Rows)

Raise(exc) ==
    /\ pc' = "aborted"
    /\ fault' = exc

\* Faulty variant: the output file is opened for writing before the CSV is read.
ReadCsv_after_open ==
    /\ pc = "read"
    /\ file' = [exists |-> TRUE, chunks |-> <<>>]
    /\ IF csv.exists
       THEN /\ df' = csv.rows
            /\ pc' = "businesses"
            /\ UNCHANGED fault
       ELSE /\ pc' = "aborted"
            /\ fault' = "FileNotFoundError"
            /\ UNCHANGED df
    /\ UNCHANGED <<csv, bi, businesses, business_data, ri, reviews, avg_rating,
                   extraction_data, prior, stdout, run, written>>

\* df = pd.read_csv(...)
ReadCsv ==
    /\ pc = "read"
    /\ IF csv.exists
       THEN /\ df' = csv.rows
            /\ pc' = "businesses"
            /\ UNCHANGED fault
       ELSE /\ Raise("FileNotFoundError")
            /\ UNCHANGED df
    /\ UNCHANGED <<csv, bi, businesses, business_data, ri, reviews, avg_rating,
                   extraction_data, file, prior, stdout, run, written>>

\* One iteration of: for business_title in df['title'].unique()
DeriveBusiness ==
    /\ pc = "businesses"
    /\ bi <= Len(unique(TitleColumn(df)))
    /\ LET business_title == unique(TitleColumn(df))[bi]
           business_reviews == RowsTitled(df, business_title)
       IN  IF ValidTitle(business_title) /\ Len(business_reviews) > 0
           THEN LET business == Business(business_title, business_reviews[1])
                IN  /\ businesses' = Append(businesses, business)
                    /\ business_data' =
                          SelectSeq(business_data,
                                    LAMBDA e : e.key # business_title)
                          \o <<[key |-> business_title, value |-> business]>>
           ELSE UNCHANGED <<businesses, business_data>>
    /\ bi' = bi + 1
    /\ UNCHANGED <<pc, csv, df, ri, reviews, avg_rating, extraction_data,
                   file, prior, stdout, fault, run, written>>

BusinessesDone ==
    /\ pc = "businesses"
    /\ bi > Len(unique(TitleColumn(df)))
    /\ pc' = "reviews"
    /\ UNCHANGED <<csv, df, bi, businesses, business_data, ri, reviews,
                   avg_rating, extraction_data, file, prior, stdout, fault,
                   run, written>>

\* One iteration of: for _, row in df.iterrows()
NormalizeReview ==
    /\ pc = "reviews"
    /\ ri <= Len(df)
    /\ LET row == df[ri]
           stars == StarsOf(row.stars)
       IN  IF ~ValidTitle(row.title)
           THEN /\ ri' = ri + 1
                /\ UNCHANGED <<pc, reviews, fault>>
           ELSE IF stars.ok
           THEN /\ reviews' = reviews_append(reviews, Review(row, stars.val))
                /\ ri' = ri + 1
                /\ UNCHANGED <<pc, fault>>
           ELSE /\ Raise("ValueError")
                /\ UNCHANGED <<ri, reviews>>
    /\ UNCHANGED <<csv, df, bi, businesses, business_data, avg_rating,
                   extraction_data, file, prior, stdout, run, written>>

ReviewsDone ==
    /\ pc = "reviews"
    /\ ri > Len(df)
    /\ pc' = "statistics"
    /\ UNCHANGED <<csv, df, bi, businesses, business_data, ri, reviews,
                   avg_rating, extraction_data, file, prior, stdout, fault,
                   run, written>>

ComputeStatistics ==
    /\ pc = "statistics"
    /\ avg_rating' = AvgRating(reviews)
    /\ pc' = "assemble"
    /\ UNCHANGED <<csv, df, bi, businesses, business_data, ri, reviews,
                   extraction_data, file, prior, stdout, fault, run, written>>

AssembleDocument ==
    /\ pc = "assemble"
    /\ extraction_data' = ExtractionData(businesses, reviews, avg_rating)
    /\ pc' = "open"
    /\ UNCHANGED <<csv, df, bi, businesses, business_data, ri, reviews,
                   avg_rating, file, prior, stdout, fault, run, written>>

\* open(filename, 'w', encoding='utf-8') creates or truncates the file.
OpenOutput ==
    /\ pc = "open"
    /\ file' = [exists |-> TRUE, chunks |-> <<>>]
    /\ pc' = "dump"
    /\ UNCHANGED <<csv, locals, prior, stdout, fault, run, written>>

\* open() raises (no such directory, no permission): nothing is touched.
OpenFails ==
    /\ pc = "open"
    /\ Raise("OSError")
    /\ UNCHANGED <<csv, locals, file, prior, stdout, run, written>>

\* json.dump writes the next chunk; after the last one the file is closed.
DumpChunk ==
    /\ pc = "dump"
    /\ LET out == Serialize(extraction_data)
           k == Len(file.chunks) + 1
       IN  /\ file' = [file EXCEPT !.chunks = Append(@, out[k])]
           /\ pc' = IF k = Len(out) THEN "print" ELSE "dump"
    /\ UNCHANGED <<csv, locals, prior, stdout, fault, run, written>>

\* A write raises (disk full, I/O error): the with-block closes the file
\* with what was written so far.
DumpFails ==
    /\ pc = "dump"
    /\ Raise("OSError")
    /\ UNCHANGED <<csv, locals, file, prior, stdout, run, written>>

PrintSummary ==
    /\ pc = "print"
    /\ stdout' = Summary(businesses, reviews, avg_rating)
    /\ pc' = "done"
    /\ UNCHANGED <<csv, locals, file, prior, fault, run, written>>

\* The script is run again on the same CSV.
Rerun ==
    /\ pc \in {"done", "aborted"}
    /\ run < MaxRuns
    /\ written' = Append(written, [ok |-> pc = "done", file |-> file])
    /\ run' = run + 1
    /\ prior' = file
    /\ pc' = "read"
    /\ df' = <<>>
    /\ bi' = 1
    /\ businesses' = <<>>
    /\ business_data' = <<>>
    /\ ri' = 1
    /\ reviews' = <<>>
    /\ avg_rating' = [num |-> 0, den |-> 1]
    /\ extraction_data' = NoDocument
    /\ stdout' = <<>>
    /\ fault' = "none"
    /\ UNCHANGED <<csv, file>>

Next ==
    \/ ReadCsv
    \/ DeriveBusiness
    \/ BusinessesDone
    \/ NormalizeReview
    \/ ReviewsDone
    \/ ComputeStatistics
    \/ AssembleDocument
    \/ OpenOutput
    \/ OpenFails
    \/ DumpChunk
    \/ DumpFails
    \/ PrintSummary

Spec == Init /\ [][Next]_vars

NextRerun == Next \/ Rerun

InitRerun == InitOver(RerunRows)

SpecRerun == InitRerun /\ [][NextRerun]_vars

---------------------------------------------------------------------------
(* Vocabulary of the properties, stated on the input table and the         *)
(* document without the operators of the transformation.                   *)

Assembled == extraction_data # NoDocument

\* A title that is null or holds nothing but whitespace.
Blank(t) == t = NaN \/ \A i \in 1..Len(t) : t[i] \in {" ", "\t"}

\* The text a cell is written as: '' for a null cell.
Txt(x) == IF x = NaN THEN <<>> ELSE x

\* The rows with a usable title, as row numbers in input order.
Kept(rows) ==
    SelectSeq([i \in 1..Len(rows) |-> i], LAMBDA i : ~Blank(rows[i].title))

FirstRow(rows, t) ==
    CHOOSE i \in 1..Len(rows) :
        rows[i].title = t /\ \A j \in 1..(i - 1) : rows[j].title # t

\* Removing leading and trailing whitespace, as a property of the result.
Trimmed(t) ==
    CHOOSE u \in {SubSeq(t, a, b) : a \in 1..(Len(t) + 1), b \in 0..Len(t)} :
        /\ \E a \in 1..(Len(t) + 1), b \in 0..Len(t) :
              /\ u = SubSeq(t, a, b)
              /\ \A i \in 1..Len(t) : (i < a \/ i > b) => t[i] \in {" ", "\t"}
        /\ u # <<>> => (u[1] \notin {" ", "\t"} /\ u[Len(u)] \notin {" ", "\t"})

RECURSIVE Total(_, _)
Total(f, S) ==
    IF S = {} THEN 0
    ELSE LET x == CHOOSE y \in S : TRUE IN f[x] + Total(f, S \ {x})

Doc == extraction_data

---------------------------------------------------------------------------
(* The properties.                                                         *)

\* C1: in the assembled document every review's title equals the title of
\* exactly one business, and the number of businesses equals
\* searchCriteria.businessLimit and statistics.businessesFound.
C1_ReviewsGroupUnderOneBusiness ==
    Assembled =>
        LET bs == Doc.results.businesses
            revs == Doc.results.reviews
        IN  /\ \A k \in 1..Len(revs) :
                  Cardinality({j \in 1..Len(bs) : bs[j].title = revs[k].title}) = 1
            /\ Len(bs) = Doc.searchCriteria.businessLimit
            /\ Len(bs) = Doc.statistics.businessesFound

C1_Witness ==
    /\ Assembled
    /\ Len(Doc.results.businesses) = 2
    /\ Len(Doc.results.reviews) = 3

\* C2 as stated: the number of businesses is the number of distinct trimmed
\* non-empty titles, titles differing only in surrounding whitespace
\* counting once.
C2_OneBusinessPerTrimmedTitle ==
    Assembled =>
        Len(Doc.results.businesses) =
            Cardinality({Trimmed(df[i].title) :
                            i \in {j \in 1..Len(df) : ~Blank(df[j].title)}})

\* C2 amended: the businesses are the distinct exact titles that are
\* non-null and non-empty after trimming, one business each, in the order
\* in which those titles first occur in the input.
C2_OneBusinessPerExactTitle ==
    Assembled =>
        LET bs == Doc.results.businesses
        IN  /\ Len(bs) =
                  Cardinality({df[i].title :
                                  i \in {j \in 1..Len(df) : ~Blank(df[j].title)}})
            /\ \A k \in 1..Len(bs) :
                  \E i \in 1..Len(df) :
                      df[i].title = bs[k].title /\ ~Blank(df[i].title)
            /\ \A k, l \in 1..Len(bs) :
                  k < l => FirstRow(df, bs[k].title) < FirstRow(df, bs[l].title)

C2_Witness ==
    /\ Assembled
    /\ Len(df) = 3
    /\ df[1].title = <<" ", "A">>
    /\ df[2].title = <<"A">>
    /\ df[3].title = <<" ", "A">>
    /\ Len(Doc.results.businesses) = 2

\* C3: a row whose title is null or empty after trimming produces no
\* business and no review, and counts in neither businessesFound,
\* reviewsFound nor avgRating; its stars cell is not even parsed.
C3_BlankTitleRowsContributeNothing ==
    /\ \A k \in 1..Len(businesses) : ~Blank(businesses[k].title)
    /\ \A k \in 1..Len(reviews) : ~Blank(reviews[k].title)
    /\ Len(reviews) =
          Cardinality({i \in 1..(ri - 1) : ~Blank(df[i].title)})
    /\ (pc = "aborted" /\ fault = "ValueError") => ~Blank(df[ri].title)
    /\ Assembled =>
          LET kept == {i \in 1..Len(df) : ~Blank(df[i].title)}
              value == [i \in kept |-> StarsOf(df[i].stars).val]
              rated == {i \in kept : value[i] > 0}
              st == Doc.statistics
          IN  /\ st.reviewsFound = Cardinality(kept)
              /\ st.businessesFound = Cardinality({df[i].title : i \in kept})
              /\ st.avgRating =
                    IF rated = {} THEN 30
                    ELSE round1([num |-> Total(value, rated),
                                 den |-> Cardinality(rated)])

C3_Witness ==
    /\ pc = "done"
    /\ Len(df) = 3
    /\ df[1].title = NaN /\ df[1].stars = NumStars(5)
    /\ df[2].title = <<" ">> /\ df[2].stars = StrStars(<<"x">>)
    /\ df[3].title = <<"A">> /\ df[3].stars = NaNStars
    /\ Doc.statistics.avgRating = 30

\* C4: a review's stars is the integer parsed from the stars cell of its
\* source row, or 3 when that cell is null or blank.
C4_StarsParsedOrThree ==
    \A k \in 1..Len(reviews) :
        LET cell == df[Kept(df)[k]].stars
            blank == \/ cell.kind = "nan"
                     \/ cell.kind = "str" /\ Blank(cell.str)
        IN  /\ blank => reviews[k].stars = 3
            /\ (cell.kind = "num") => reviews[k].stars = cell.num
            /\ (cell.kind = "str" /\ ~blank) =>
                  /\ reviews[k].stars >= 0
                  /\ DecStr(reviews[k].stars) = Trimmed(cell.str)

C4_Witness ==
    /\ pc = "done"
    /\ Len(reviews) = 3
    /\ \E k \in 1..3 : df[k].stars = StrStars(<<" ">>) /\ reviews[k].stars = 3
    /\ \E k \in 1..3 : df[k].stars = StrStars(<<"4", " ">>) /\ reviews[k].stars = 4
    /\ \E k \in 1..3 : df[k].stars = NaNStars /\ reviews[k].stars = 3

\* C5: avgRating is the mean of the stars of all reviews with stars > 0,
\* rounded to one decimal (the nearest tenth, a tie to the even tenth), or
\* 3.0 when no review has stars > 0; defaulted stars count, reviews with
\* stars <= 0 do not but are still counted in reviewsFound. Two rows titled
\* alike with stars 5 and blank give 4.0, one business, two reviews.
C5_AvgRatingIsRoundedPositiveMean ==
    Assembled =>
        LET revs == Doc.results.reviews
            rated == {k \in 1..Len(revs) : revs[k].stars > 0}
            S == Total([k \in 1..Len(revs) |-> revs[k].stars], rated)
            n == Cardinality(rated)
            r == Doc.statistics.avgRating
        IN  /\ Doc.statistics.reviewsFound = Len(revs)
            /\ n = 0 => r = 30
            /\ n > 0 =>
                  /\ 2 * (10 * S - r * n) <= n
                  /\ 2 * (r * n - 10 * S) <= n
                  /\ (2 * (10 * S - r * n) = n \/ 2 * (r * n - 10 * S) = n)
                        => r % 2 = 0
            /\ ( /\ Len(df) = 2
                 /\ df[1].title = <<"A">> /\ df[1].stars = NumStars(5)
                 /\ df[2].title = <<"A">> /\ df[2].stars = NaNStars )
               => /\ r = 40
                  /\ Doc.statistics.businessesFound = 1
                  /\ Doc.statistics.reviewsFound = 2
                  /\ revs[1].stars = 5 /\ revs[2].stars = 3

C5_Witness ==
    /\ pc = "done"
    /\ Len(df) = 3
    /\ df[1].title = <<"A">> /\ df[1].stars = NumStars(5)
    /\ df[2].title = <<"A">> /\ df[2].stars = NaNStars
    /\ df[3].title = <<"A">> /\ df[3].stars = NumStars(0)
    /\ Doc.statistics.avgRating = 40
    /\ Doc.statistics.reviewsFound = 3

\* C6 as stated: when the run ends, by completion or by any failure, the
\* output file is either the complete new document or exactly what it was
\* before the run, never an empty or partly written file.
C6_NoPartialOutput ==
    pc \in {"done", "aborted"} =>
        \/ file = prior
        \/ /\ Assembled
           /\ file = [exists |-> TRUE, chunks |-> Serialize(Doc)]

\* C7: run again on the same CSV, the script writes the same document,
\* whatever the file held before either run; id and timestamp are the
\* same constants in every document.
C7_RerunWritesSameDocument ==
    /\ Assembled =>
          /\ Doc.id = "extraction_1758391644659_ub9h7wl69"
          /\ Doc.timestamp = "2025-09-20T18:07:24.659Z"
    /\ pc = "done" =>
          \A k \in 1..Len(written) : written[k].ok => written[k].file = file

C7_Witness ==
    /\ pc = "done"
    /\ run = 2
    /\ written[1].ok
    /\ prior # StaleFile /\ prior # NoFile
    /\ Len(Doc.results.reviews) = 2

\* C8: each business is built once, from the first row bearing exactly its
\* title (address, placeId and url of that row, '' for a null), whatever
\* later rows with that title hold, and the list is the same from the end
\* of the business loop on.
C8_BusinessFromFirstRowThenFrozen ==
    /\ \A k \in 1..Len(businesses) :
          LET b == businesses[k]
              first == df[FirstRow(df, b.title)]
          IN  /\ b.address = Txt(first.address)
              /\ b.placeId = Txt(first.placeId)
              /\ b.url = Txt(first.url)
    /\ \A k, l \in 1..Len(businesses) :
          k # l => businesses[k].title # businesses[l].title
    /\ pc \notin {"read", "businesses"} =>
          Len(businesses) =
              Cardinality({df[i].title :
                              i \in {j \in 1..Len(df) : ~Blank(df[j].title)}})
    /\ Assembled => Doc.results.businesses = businesses

C8_Witness ==
    /\ pc = "done"
    /\ Len(df) = 3
    /\ df[1].title = <<"A">> /\ df[1].address = NaN
    /\ df[3].title = <<"A">> /\ df[3].address = <<"a">>
    /\ Len(businesses) = 1
    /\ businesses[1].address = <<>>

\* C9: results.reviews holds one review per row with a non-null title that
\* is non-empty after trimming, in input order, equal rows kept, and
\* reviewsFound is the number of those rows.
C9_ReviewsAreTheKeptRowsInOrder ==
    Assembled =>
        LET revs == Doc.results.reviews
            kept == Kept(df)
        IN  /\ Len(revs) = Len(kept)
            /\ Doc.statistics.reviewsFound = Len(kept)
            /\ \A k \in 1..Len(revs) :
                  LET row == df[kept[k]]
                  IN  /\ revs[k].title = row.title
                      /\ revs[k].address = Txt(row.address)
                      /\ revs[k].name = Txt(row.name)
                      /\ revs[k].publishedAtDate = Txt(row.publishedAtDate)
                      /\ revs[k].text = Txt(row.text)
                      /\ revs[k].reviewUrl = Txt(row.reviewUrl)
                      /\ revs[k].url = Txt(row.url)

C9_Witness ==
    /\ pc = "done"
    /\ Len(df) = 3
    /\ df[1] = df[3]
    /\ ~Blank(df[1].title)
    /\ Blank(df[2].title)
    /\ Len(Doc.results.reviews) = 2

\* C10: the output file is opened only after loading, business derivation,
\* review normalisation and statistics are done: up to the open, and after
\* a run that ended in a missing CSV or an unparsable stars cell, the file
\* is as the run found it and nothing has been printed.
C10_FileUntouchedBeforeOpen ==
    ( \/ pc \in {"read", "businesses", "reviews", "statistics", "assemble",
                 "open"}
      \/ pc = "aborted" /\ fault \in {"FileNotFoundError", "ValueError"} )
    => /\ file = prior
       /\ stdout = <<>>

C10_Witness ==
    /\ pc = "aborted"
    /\ fault = "ValueError"
    /\ Len(reviews) = 2
    /\ file = StaleFile

====
